---- MODULE Spec2Model ----
(***************************************************************************)
(* vsfsck: consistency checker and repairer for a VSFS image.              *)
(*                                                                         *)
(* The image is a sequence of 32-bit little-endian words; only the         *)
(* nonzero words are stored (a sparse map from word address to value).     *)
(* A 32-bit word is held as the integer with the same two's-complement     *)
(* bit pattern, so a uint32_t at or above 2^31 is a negative integer and   *)
(* the conversion uint32_t -> int is the identity on the representation.   *)
(***************************************************************************)
EXTENDS Integers, Sequences, FiniteSets, TLC

VARIABLES
    argc,                 \* main's argc
    fs_image,             \* FILE *fs_image: "none" before fopen, "open", "NULL", "closed"
    disk,                 \* the image file, word address -> nonzero word
    disk0,                \* the image as it was when the current run opened it
    before,               \* the in-memory structures as fix_errors found them
    run,                  \* number of the current run of the program
    pc,                   \* position of main()
    pass,                 \* 1: first validation pass, 2: re-check
    superblock,           \* superblock_t superblock (the 1024 words of the struct)
    inode_bitmap,         \* uint8_t inode_bitmap[BLOCK_SIZE]
    data_bitmap,          \* uint8_t data_bitmap[BLOCK_SIZE]
    inodes,               \* inode_t inodes[INODE_COUNT]
    block_referenced,     \* bool block_referenced[]: the indices holding true
    block_referenced_by,  \* int block_referenced_by[]: the entries other than -1
    errors_found,
    errors_fixed,
    original_errors,      \* main's local original_errors, -1 before it is set
    found,                \* what each validator printed, per pass
    fixed_printed,        \* the "Errors fixed" figure main printed, -1 if none
    steps,                \* the calls main has made in the current run, in order
    writes                \* fwrite calls of the current run, in order

vars == <<argc, fs_image, disk, disk0, before, run, pc, pass, superblock, inode_bitmap, data_bitmap,
          inodes, block_referenced, block_referenced_by, errors_found,
          errors_fixed, original_errors, found, fixed_printed, steps, writes>>

----------------------------------------------------------------------------
(* Program constants *)

BLOCK_SIZE == 4096
TOTAL_BLOCKS == 64
INODE_SIZE == 256
INODE_COUNT == 80
MAGIC_NUMBER == 54093            \* 0xD34D

(* Supported values of the geometry fields that the code writes as literals *)
INODE_BITMAP_BLOCK == 1
DATA_BITMAP_BLOCK == 2
INODE_TABLE_START == 3
DATA_BLOCK_START == 8

WordsPerBlock == BLOCK_SIZE \div 4     \* BLOCK_SIZE / sizeof(uint32_t)
WordsPerInode == INODE_SIZE \div 4     \* sizeof(inode_t) / 4

(* Word offsets of the fields of superblock_t (magic is the low half of word 0) *)
SB_MAGIC == 0
SB_BLOCK_SIZE == 1
SB_TOTAL_BLOCKS == 2
SB_INODE_BITMAP_BLOCK == 3
SB_DATA_BITMAP_BLOCK == 4
SB_INODE_TABLE_START == 5
SB_DATA_BLOCK_START == 6
SB_INODE_SIZE == 7
SB_INODE_COUNT == 8

(* Word offsets of the fields of inode_t *)
I_MODE == 0
I_SIZE == 3
I_DTIME == 7
I_NLINK == 8
I_DIRECT == 10
I_INDIRECT == 22
NDIRECT == 12

(* Bounds of the model *)
MaxCorruptions == 2     \* words of the base image an initial image may differ in
MaxRuns == 2            \* runs of the program on the same image

(* The image file holds exactly the blocks of the fixed layout *)
ImageWords == TOTAL_BLOCKS * WordsPerBlock

----------------------------------------------------------------------------
(* Sparse word maps *)

Empty == [a \in {} |-> 0]

Get(m, a) == IF a \in DOMAIN m THEN m[a] ELSE 0

Put(m, a, v) ==
    IF v = 0 THEN [x \in DOMAIN m \ {a} |-> m[x]]
    ELSE [x \in DOMAIN m \cup {a} |-> IF x = a THEN v ELSE m[x]]

(* the len words of m from base on, re-addressed from 0 *)
Slice(m, base, len) ==
    [x \in {a - base : a \in {d \in DOMAIN m : d >= base /\ d < base + len}}
        |-> m[x + base]]

(* m with its len words from base on replaced by buf *)
Overlay(m, base, len, buf) ==
    [x \in {d \in DOMAIN m : d < base \/ d >= base + len}
            \cup {a + base : a \in {d \in DOMAIN buf : d >= 0 /\ d < len}}
        |-> IF x >= base /\ x < base + len THEN buf[x - base] ELSE m[x]]

(* unsigned comparison of two 32-bit words *)
ULess(a, b) == IF (a >= 0) = (b >= 0) THEN a < b ELSE b < 0

(* word address of the byte offset blk * BLOCK_SIZE computed in uint32_t *)
BlockAddr(blk) == (blk % 1048576) * WordsPerBlock

(* fread of one block at BlockAddr(blk) into buf: a short read leaves buf as it was *)
ReadBlock(d, blk, buf) ==
    IF BlockAddr(blk) + WordsPerBlock <= ImageWords
    THEN Slice(d, BlockAddr(blk), WordsPerBlock)
    ELSE buf

WriteBlock(d, blk, buf) == Overlay(d, BlockAddr(blk), WordsPerBlock, buf)

----------------------------------------------------------------------------
(* Bitmaps: bit k is bit k % 8 of byte k / 8, i.e. bit k % 32 of word k / 32 *)

Bit31 == -2147483647 - 1

WordBit(w, k) == IF k = 31 THEN (IF w < 0 THEN 1 ELSE 0) ELSE (w \div (2 ^ k)) % 2

get_bit(bitmap, bit_index) ==
    WordBit(Get(bitmap, bit_index \div 32), bit_index % 32)

set_bit(bitmap, bit_index) ==
    IF get_bit(bitmap, bit_index) = 1 THEN bitmap
    ELSE Put(bitmap, bit_index \div 32,
             Get(bitmap, bit_index \div 32)
               + (IF bit_index % 32 = 31 THEN Bit31 ELSE 2 ^ (bit_index % 32)))

clear_bit(bitmap, bit_index) ==
    IF get_bit(bitmap, bit_index) = 0 THEN bitmap
    ELSE Put(bitmap, bit_index \div 32,
             Get(bitmap, bit_index \div 32)
               - (IF bit_index % 32 = 31 THEN Bit31 ELSE 2 ^ (bit_index % 32)))

----------------------------------------------------------------------------
(* Superblock and inode field access *)

SbMagic(sb) == Get(sb, SB_MAGIC) % 65536

SetMagic(sb, v) == Put(sb, SB_MAGIC, Get(sb, SB_MAGIC) - SbMagic(sb) + v)

InodeField(ino, i, f) == Get(ino, i * WordsPerInode + f)

Direct(ino, i, j) == InodeField(ino, i, I_DIRECT + j)

Indirect(ino, i) == InodeField(ino, i, I_INDIRECT)

InodeSlots == 0 .. (INODE_COUNT - 1)

is_valid_inode(ino, i) ==
    InodeField(ino, i, I_NLINK) # 0 /\ InodeField(ino, i, I_DTIME) = 0

ValidInodes(ino) == {i \in InodeSlots : is_valid_inode(ino, i)}

----------------------------------------------------------------------------
(* Loading *)

read_superblock(d, sb) == ReadBlock(d, 0, sb)

(* word address of the byte offset inode_table_start * BLOCK_SIZE + i * INODE_SIZE,
   computed in uint32_t *)
InodeAddr(sb, i) ==
    (BlockAddr(Get(sb, SB_INODE_TABLE_START)) + i * WordsPerInode) % 1073741824

(* one fread per inode record; a record past the end of the image is a short
   read and leaves inodes[i] as it was *)
read_inodes(d, sb, ino) ==
    LET ok(i) == InodeAddr(sb, i) + WordsPerInode <= ImageWords
        \* the record whose fread covers word a of the image, if any
        rec(a) == ((a - InodeAddr(sb, 0)) % 1073741824) \div WordsPerInode
        src == {a \in DOMAIN d : rec(a) < INODE_COUNT /\ ok(rec(a))}
        kept == {x \in DOMAIN ino : ~ok(x \div WordsPerInode)}
        at(x) == InodeAddr(sb, x \div WordsPerInode) + (x % WordsPerInode)
    IN  [x \in kept \cup {rec(a) * WordsPerInode + (a - InodeAddr(sb, rec(a))) : a \in src}
            |-> IF x \in kept THEN ino[x] ELSE d[at(x)]]

----------------------------------------------------------------------------
(* Validators.  Each returns the set of findings it prints; every finding
   increments errors_found once. *)

SbExpected ==
    [f \in SB_MAGIC .. SB_INODE_COUNT |->
        CASE f = SB_MAGIC -> MAGIC_NUMBER
          [] f = SB_BLOCK_SIZE -> BLOCK_SIZE
          [] f = SB_TOTAL_BLOCKS -> TOTAL_BLOCKS
          [] f = SB_INODE_BITMAP_BLOCK -> INODE_BITMAP_BLOCK
          [] f = SB_DATA_BITMAP_BLOCK -> DATA_BITMAP_BLOCK
          [] f = SB_INODE_TABLE_START -> INODE_TABLE_START
          [] f = SB_DATA_BLOCK_START -> DATA_BLOCK_START
          [] f = SB_INODE_SIZE -> INODE_SIZE
          [] f = SB_INODE_COUNT -> INODE_COUNT]

SbValue(sb, f) == IF f = SB_MAGIC THEN SbMagic(sb) ELSE Get(sb, f)

(* check_superblock without the tolerance of an inode count of zero *)
check_superblock_NoZeroTolerance(sb) ==
    {f \in SB_MAGIC .. SB_INODE_COUNT : SbValue(sb, f) # SbExpected[f]}

check_superblock(sb) ==
    {f \in SB_MAGIC .. SB_INODE_SIZE : SbValue(sb, f) # SbExpected[f]}
    \cup {f \in {SB_INODE_COUNT} :
            SbValue(sb, f) # INODE_COUNT /\ SbValue(sb, f) # 0}

check_inode_bitmap_consistency(ibm, ino) ==
    {<<i, "used_not_valid">> : i \in {k \in InodeSlots :
            get_bit(ibm, k) = 1 /\ ~is_valid_inode(ino, k)}}
    \cup {<<i, "valid_not_used">> : i \in {k \in InodeSlots :
            get_bit(ibm, k) = 0 /\ is_valid_inode(ino, k)}}

(* the nonzero values of a buffer of indirect entries *)
Entries(buf) == {buf[a] : a \in DOMAIN buf}

(* mark_block_referenced's test "skip invalid block numbers": block_num is an
   int, compared unsigned with data_block_start and signed with TOTAL_BLOCKS *)
MarkSkips(sb, block_num) ==
    ULess(block_num, Get(sb, SB_DATA_BLOCK_START)) \/ block_num >= TOTAL_BLOCKS

(* the (block number, inode) pairs check_data_bitmap_consistency passes to
   mark_block_referenced; stale is what the local indirect_entries buffer
   holds when the fread of an indirect block falls short *)
MarkCalls(d, ino, stale) ==
    UNION {
        {<<Direct(ino, i, j), i>> : j \in {k \in 0 .. (NDIRECT - 1) : Direct(ino, i, k) # 0}}
        \cup (IF Indirect(ino, i) = 0 THEN {}
              ELSE {<<Indirect(ino, i), i>>}
                   \cup {<<e, i>> : e \in Entries(ReadBlock(d, Indirect(ino, i), stale))})
        : i \in ValidInodes(ino)}

BlockReferenced(d, sb, ino, stale) ==
    {c[1] : c \in {m \in MarkCalls(d, ino, stale) : ~MarkSkips(sb, m[1])}}

(* first claimant wins: inodes are walked in ascending order *)
BlockReferencedBy(d, sb, ino, stale) ==
    LET calls == {m \in MarkCalls(d, ino, stale) : ~MarkSkips(sb, m[1])}
        first(b) == CHOOSE i \in {c[2] : c \in {m \in calls : m[1] = b}} :
                        \A c \in calls : c[1] = b => i <= c[2]
    IN  [b \in {c[1] : c \in calls} |-> first(b)]

(* the loop with "i <= TOTAL_BLOCKS" *)
DataLoop_Inclusive(sb) == Get(sb, SB_DATA_BLOCK_START) .. TOTAL_BLOCKS

(* the blocks the loops "for (int i = superblock.data_block_start; i < TOTAL_BLOCKS; i++)" visit *)
DataLoop(sb) == Get(sb, SB_DATA_BLOCK_START) .. (TOTAL_BLOCKS - 1)

check_data_bitmap_consistency(sb, dbm, referenced) ==
    {<<b, "used_not_referenced">> : b \in {i \in DataLoop(sb) :
            get_bit(dbm, i - Get(sb, SB_DATA_BLOCK_START)) = 1 /\ i \notin referenced}}
    \cup {<<b, "referenced_not_used">> : b \in {i \in DataLoop(sb) :
            get_bit(dbm, i - Get(sb, SB_DATA_BLOCK_START)) = 0 /\ i \in referenced}}

(* "block_num != 0 && block_num < TOTAL_BLOCKS" on a uint32_t *)
Counted(block_num) == block_num # 0 /\ ULess(block_num, TOTAL_BLOCKS)

(* how many times the walk of inode i appends i to block_references[b] *)
ClaimCount(d, ino, i, b) ==
    Cardinality({j \in 0 .. (NDIRECT - 1) : Direct(ino, i, j) = b})
    + (IF Counted(Indirect(ino, i))
       THEN (IF Indirect(ino, i) = b THEN 1 ELSE 0)
            + (LET buf == ReadBlock(d, Indirect(ino, i), Empty)
               IN  Cardinality({a \in DOMAIN buf : buf[a] = b}))
       ELSE 0)

RECURSIVE Repeat(_, _)
Repeat(x, n) == IF n <= 0 THEN <<>> ELSE <<x>> \o Repeat(x, n - 1)

(* the inodes the walk of the inodes in S stores for block b, in order:
   reference_counts[b] is the length *)
RECURSIVE ClaimantSeq(_, _, _, _)
ClaimantSeq(d, ino, b, S) ==
    IF S = {} THEN <<>>
    ELSE LET i == CHOOSE x \in S : \A y \in S : x <= y
         IN  Repeat(i, ClaimCount(d, ino, i, b)) \o ClaimantSeq(d, ino, b, S \ {i})

Claimants(d, ino, b) ==
    IF Counted(b) THEN ClaimantSeq(d, ino, b, ValidInodes(ino)) ELSE <<>>

(* the rows of block_references after the walk; a block no valid inode
   names has no claimant *)
ClaimantRows(d, ino) ==
    LET named == {c[1] : c \in MarkCalls(d, ino, Empty)}
    IN  [b \in 0 .. (TOTAL_BLOCKS - 1) |->
            IF b \in named THEN Claimants(d, ino, b) ELSE <<>>]

(* block_references is one array of TOTAL_BLOCKS * INODE_COUNT ints and the
   k-th claimant of block b is stored in cell b * INODE_COUNT + k with no test
   of k: from k = INODE_COUNT on the cell belongs to a later row.  These are
   the values the walk stores in cell c *)
CellWrites(rows, c) ==
    {rows[b][c - b * INODE_COUNT + 1] : b \in {x \in DOMAIN rows :
        c - x * INODE_COUNT \in 0 .. (Len(rows[x]) - 1)}}

(* the inodes are walked in ascending order and each stores its own number:
   the store that lasts is the one of the highest inode *)
LastWriter(S) == CHOOSE x \in S : \A y \in S : y <= x

(* block_references[b][0 .. reference_counts[b] - 1] as the report loop reads it *)
PrintedRow(rows, b) ==
    [k \in 1 .. Len(rows[b]) |-> LastWriter(CellWrites(rows, b * INODE_COUNT + k - 1))]

(* the blocks whose claimants are stored past the end of block_references *)
PastMatrix(rows) ==
    {b \in DOMAIN rows : b * INODE_COUNT + Len(rows[b]) > TOTAL_BLOCKS * INODE_COUNT}

check_duplicate_blocks(d, sb, ino) ==
    LET rows == ClaimantRows(d, ino)
    IN  {<<b, PrintedRow(rows, b)>> : b \in {i \in DataLoop(sb) \cap DOMAIN rows :
            Len(rows[i]) > 1}}

(* "block_num != 0 && (block_num < superblock.data_block_start ||
   block_num >= TOTAL_BLOCKS)" on a uint32_t *)
BadBlockNum(sb, block_num) ==
    /\ block_num # 0
    /\ \/ ULess(block_num, Get(sb, SB_DATA_BLOCK_START))
       \/ ~ULess(block_num, TOTAL_BLOCKS)

(* inodes whose indirect block the range check and the range fix read *)
WithIndirectInRange(sb, ino) ==
    {i \in ValidInodes(ino) : Indirect(ino, i) # 0 /\ ~BadBlockNum(sb, Indirect(ino, i))}

check_bad_blocks(d, sb, ino) ==
    {<<i, "direct", j, Direct(ino, i, j)>> : <<i, j>> \in
        {p \in ValidInodes(ino) \X (0 .. (NDIRECT - 1)) :
            BadBlockNum(sb, Direct(ino, p[1], p[2]))}}
    \cup {<<i, "indirect", 0, Indirect(ino, i)>> : i \in
        {k \in ValidInodes(ino) : BadBlockNum(sb, Indirect(ino, k))}}
    \cup UNION {
        LET buf == ReadBlock(d, Indirect(ino, i), Empty)
        IN  {<<i, "entry", j, buf[j]>> : j \in
                {a \in DOMAIN buf : BadBlockNum(sb, buf[a])}}
        : i \in WithIndirectInRange(sb, ino)}

----------------------------------------------------------------------------
(* Repair: the parts of fix_errors *)

SbMismatched(sb) == {f \in SB_MAGIC .. SB_INODE_COUNT : SbValue(sb, f) # SbExpected[f]}

RECURSIVE FixSbFields(_, _)
FixSbFields(sb, F) ==
    IF F = {} THEN sb
    ELSE LET f == CHOOSE x \in F : TRUE
         IN  FixSbFields(IF f = SB_MAGIC THEN SetMagic(sb, MAGIC_NUMBER)
                         ELSE Put(sb, f, SbExpected[f]), F \ {f})

(* fix_errors tolerating an inode count of zero as check_superblock does *)
FixSuperblock_KeepZeroCount(sb) ==
    FixSbFields(sb, {f \in SbMismatched(sb) : ~(f = SB_INODE_COUNT /\ Get(sb, f) = 0)})

FixSuperblock(sb) == FixSbFields(sb, SbMismatched(sb))

RECURSIVE FixBits(_, _, _)
FixBits(bitmap, toSet, toClear) ==
    IF toSet # {}
    THEN LET k == CHOOSE x \in toSet : TRUE
         IN  FixBits(set_bit(bitmap, k), toSet \ {k}, toClear)
    ELSE IF toClear # {}
    THEN LET k == CHOOSE x \in toClear : TRUE
         IN  FixBits(clear_bit(bitmap, k), toSet, toClear \ {k})
    ELSE bitmap

InodeBitsToSet(ibm, ino) ==
    {i \in InodeSlots : get_bit(ibm, i) = 0 /\ is_valid_inode(ino, i)}

InodeBitsToClear(ibm, ino) ==
    {i \in InodeSlots : get_bit(ibm, i) = 1 /\ ~is_valid_inode(ino, i)}

(* fix_errors without the branch that clears the bit of an invalid inode *)
FixInodeBitmap_SetOnly(ibm, ino) ==
    FixBits(ibm, InodeBitsToSet(ibm, ino), {})

FixInodeBitmap(ibm, ino) ==
    FixBits(ibm, InodeBitsToSet(ibm, ino), InodeBitsToClear(ibm, ino))

(* sb is the superblock as already fixed; referenced is the global
   block_referenced as the last call of check_data_bitmap_consistency left it *)
DataBitsToSet(sb, dbm, referenced) ==
    {i - Get(sb, SB_DATA_BLOCK_START) : i \in {b \in DataLoop(sb) :
        get_bit(dbm, b - Get(sb, SB_DATA_BLOCK_START)) = 0 /\ b \in referenced}}

DataBitsToClear(sb, dbm, referenced) ==
    {i - Get(sb, SB_DATA_BLOCK_START) : i \in {b \in DataLoop(sb) :
        get_bit(dbm, b - Get(sb, SB_DATA_BLOCK_START)) = 1 /\ b \notin referenced}}

FixDataBitmap(sb, dbm, referenced) ==
    FixBits(dbm, DataBitsToSet(sb, dbm, referenced), DataBitsToClear(sb, dbm, referenced))

(* the words of inodes[] that hold an out-of-range direct or indirect pointer *)
BadPointerWords(sb, ino) ==
    {i * WordsPerInode + I_DIRECT + j : <<i, j>> \in
        {p \in ValidInodes(ino) \X (0 .. (NDIRECT - 1)) :
            BadBlockNum(sb, Direct(ino, p[1], p[2]))}}
    \cup {i * WordsPerInode + I_INDIRECT : i \in
        {k \in ValidInodes(ino) : BadBlockNum(sb, Indirect(ino, k))}}

FixPointers(sb, ino) ==
    [x \in DOMAIN ino \ BadPointerWords(sb, ino) |-> ino[x]]

(* an indirect block with its out-of-range entries zeroed *)
FixEntries(sb, buf) ==
    [a \in {x \in DOMAIN buf : ~BadBlockNum(sb, buf[x])} |-> buf[a]]

(* the walk over the inodes in S, in ascending order, that reads each in-range
   indirect block, zeroes its bad entries and writes it back at once if it
   changed; st = [disk, writes, fixed] *)
RECURSIVE FixIndirectBlocks(_, _, _, _)
FixIndirectBlocks(st, sb, ino, S) ==
    IF S = {} THEN st
    ELSE LET i == CHOOSE x \in S : \A y \in S : x <= y
             blk == Indirect(ino, i)
             buf == ReadBlock(st.disk, blk, Empty)
             new == FixEntries(sb, buf)
         IN  FixIndirectBlocks(
                 IF new = buf THEN st
                 ELSE [disk |-> WriteBlock(st.disk, blk, new),
                       writes |-> Append(st.writes, <<"indirect", blk>>),
                       fixed |-> st.fixed + Cardinality(DOMAIN buf \ DOMAIN new)],
                 sb, ino, S \ {i})

write_superblock(st, sb) ==
    [st EXCEPT !.disk = WriteBlock(st.disk, 0, sb),
               !.writes = Append(st.writes, <<"superblock", 0>>)]

(* write_bitmaps writing the data bitmap before the inode bitmap *)
write_bitmaps_DataFirst(st, sb, ibm, dbm) ==
    [st EXCEPT !.disk = WriteBlock(
                            WriteBlock(st.disk, Get(sb, SB_DATA_BITMAP_BLOCK), dbm),
                            Get(sb, SB_INODE_BITMAP_BLOCK), ibm),
               !.writes = st.writes
                            \o <<<<"data_bitmap", Get(sb, SB_DATA_BITMAP_BLOCK)>>,
                                 <<"inode_bitmap", Get(sb, SB_INODE_BITMAP_BLOCK)>>>>]

write_bitmaps(st, sb, ibm, dbm) ==
    [st EXCEPT !.disk = WriteBlock(
                            WriteBlock(st.disk, Get(sb, SB_INODE_BITMAP_BLOCK), ibm),
                            Get(sb, SB_DATA_BITMAP_BLOCK), dbm),
               !.writes = st.writes
                            \o <<<<"inode_bitmap", Get(sb, SB_INODE_BITMAP_BLOCK)>>,
                                 <<"data_bitmap", Get(sb, SB_DATA_BITMAP_BLOCK)>>>>]

(* one fwrite per inode record, at the offsets read_inodes computes *)
WriteInodeRecords(d, sb, ino) ==
    LET at(x) == InodeAddr(sb, x \div WordsPerInode) + (x % WordsPerInode)
        rec(a) == ((a - InodeAddr(sb, 0)) % 1073741824) \div WordsPerInode
        kept == {a \in DOMAIN d : rec(a) >= INODE_COUNT}
    IN  [a \in kept \cup {at(x) : x \in DOMAIN ino} |->
            IF a \in kept THEN d[a] ELSE ino[CHOOSE x \in DOMAIN ino : at(x) = a]]

(* the INODE_COUNT record writes are logged as one entry *)
write_inodes(st, sb, ino) ==
    [st EXCEPT !.disk = WriteInodeRecords(st.disk, sb, ino),
               !.writes = Append(st.writes,
                                 <<"inode_table", Get(sb, SB_INODE_TABLE_START)>>)]

(* fix_errors as a whole: the new in-memory structures, the image, the
   fwrite calls in order and the value added to errors_fixed *)
fix_errors(d, sb, ibm, dbm, ino, referenced) ==
    LET sb2 == FixSuperblock(sb)
        ibm2 == FixInodeBitmap(ibm, ino)
        dbm2 == FixDataBitmap(sb2, dbm, referenced)
        ino2 == FixPointers(sb2, ino)
        ind == FixIndirectBlocks([disk |-> d, writes |-> <<>>, fixed |-> 0],
                                 sb2, ino, WithIndirectInRange(sb2, ino))
        out == write_inodes(write_bitmaps(write_superblock(ind, sb2), sb2, ibm2, dbm2),
                            sb2, ino2)
    IN  [superblock |-> sb2, inode_bitmap |-> ibm2, data_bitmap |-> dbm2,
         inodes |-> ino2, disk |-> out.disk, writes |-> out.writes,
         fixed |-> Cardinality(SbMismatched(sb))
                   + Cardinality(InodeBitsToSet(ibm, ino))
                   + Cardinality(InodeBitsToClear(ibm, ino))
                   + Cardinality(DataBitsToSet(sb2, dbm, referenced))
                   + Cardinality(DataBitsToClear(sb2, dbm, referenced))
                   + Cardinality(BadPointerWords(sb2, ino))
                   + ind.fixed]

----------------------------------------------------------------------------
(* Initial images: a well-formed image and up to MaxCorruptions corrupted words *)

MapOf(pairs) == [a \in {p[1] : p \in pairs} |-> (CHOOSE p \in pairs : p[1] = a)[2]]

SbBase == BlockAddr(0)
IbmBase == BlockAddr(INODE_BITMAP_BLOCK)
DbmBase == BlockAddr(DATA_BITMAP_BLOCK)
InoBase(i) == BlockAddr(INODE_TABLE_START) + i * WordsPerInode

(* inode 0: direct blocks 8 and 9, indirect block 10 holding block 11;
   inode 1: direct block 12; inode 2: unlinked, with a stale pointer to 13 *)
BaseImage ==
    MapOf({ <<SbBase + SB_MAGIC, MAGIC_NUMBER>>,
            <<SbBase + SB_BLOCK_SIZE, BLOCK_SIZE>>,
            <<SbBase + SB_TOTAL_BLOCKS, TOTAL_BLOCKS>>,
            <<SbBase + SB_INODE_BITMAP_BLOCK, INODE_BITMAP_BLOCK>>,
            <<SbBase + SB_DATA_BITMAP_BLOCK, DATA_BITMAP_BLOCK>>,
            <<SbBase + SB_INODE_TABLE_START, INODE_TABLE_START>>,
            <<SbBase + SB_DATA_BLOCK_START, DATA_BLOCK_START>>,
            <<SbBase + SB_INODE_SIZE, INODE_SIZE>>,
            <<SbBase + SB_INODE_COUNT, INODE_COUNT>>,
            <<IbmBase, 3>>,
            <<DbmBase, 31>>,
            <<InoBase(0) + I_MODE, 33188>>,
            <<InoBase(0) + I_SIZE, 100>>,
            <<InoBase(0) + I_NLINK, 1>>,
            <<InoBase(0) + I_DIRECT, 8>>,
            <<InoBase(0) + I_DIRECT + 1, 9>>,
            <<InoBase(0) + I_INDIRECT, 10>>,
            <<InoBase(1) + I_MODE, 33188>>,
            <<InoBase(1) + I_NLINK, 1>>,
            <<InoBase(1) + I_DIRECT, 12>>,
            <<InoBase(2) + I_MODE, 33188>>,
            <<InoBase(2) + I_DIRECT, 13>>,
            <<BlockAddr(10), 11>> })

Corruptions ==
    { <<SbBase + SB_MAGIC, 0>>,
      <<SbBase + SB_BLOCK_SIZE, 512>>,
      <<SbBase + SB_TOTAL_BLOCKS, 32>>,
      <<SbBase + SB_INODE_BITMAP_BLOCK, 2>>,
      <<SbBase + SB_INODE_BITMAP_BLOCK, 64>>,  \* a block past the end of the image
      <<SbBase + SB_DATA_BITMAP_BLOCK, 1>>,
      <<SbBase + SB_INODE_TABLE_START, 4>>,
      <<SbBase + SB_DATA_BLOCK_START, 10>>,
      <<SbBase + SB_DATA_BLOCK_START, 4>>,
      <<SbBase + SB_DATA_BLOCK_START, -1>>,    \* 0xFFFFFFFF: the loops start at int -1
      <<SbBase + SB_INODE_SIZE, 128>>,
      <<SbBase + SB_INODE_COUNT, 0>>,
      <<SbBase + SB_INODE_COUNT, 40>>,
      <<IbmBase, 1>>,                          \* inode 1 valid, bit clear
      <<IbmBase, 7>>,                          \* inode 2 not valid, bit set
      <<DbmBase, 30>>,                         \* block 8 referenced, bit clear
      <<DbmBase, 63>>,                         \* block 13 not referenced, bit set
      <<DbmBase + 1, 16777216>>,               \* bit 56, past the data region
      <<InoBase(0) + I_DTIME, 5>>,
      <<InoBase(0) + I_DIRECT, 64>>,
      <<InoBase(0) + I_DIRECT + 1, 8>>,        \* inode 0 holds block 8 twice
      <<InoBase(0) + I_INDIRECT, 3>>,          \* the inode table taken for an indirect block
      <<InoBase(0) + I_INDIRECT, 64>>,
      <<InoBase(1) + I_DIRECT, 8>>,            \* inodes 0 and 1 both hold block 8
      <<InoBase(1) + I_INDIRECT, 10>>,         \* inodes 0 and 1 share an indirect block
      <<InoBase(2) + I_NLINK, 1>>,
      <<BlockAddr(10), 70>>,
      <<BlockAddr(10) + 1, 8>> }

RECURSIVE CorruptionSets(_)
CorruptionSets(k) ==
    IF k <= 0 THEN {{}}
    ELSE LET P == CorruptionSets(k - 1)
         IN  P \cup {s \cup {c} : <<s, c>> \in
                        {q \in P \X Corruptions : \A x \in q[1] : x[1] # q[2][1]}}

RECURSIVE Corrupt(_, _)
Corrupt(d, S) ==
    IF S = {} THEN d
    ELSE LET c == CHOOSE x \in S : TRUE
         IN  Corrupt(Put(d, c[1], c[2]), S \ {c})

(* the base image with entries 1 .. INODE_COUNT of inode 0's indirect block
   all naming block 9, which inode 0 also holds as a direct block *)
FilledImage ==
    [a \in DOMAIN BaseImage \cup (BlockAddr(10) + 1 .. BlockAddr(10) + INODE_COUNT) |->
        IF a \in BlockAddr(10) + 1 .. BlockAddr(10) + INODE_COUNT THEN 9 ELSE BaseImage[a]]

(* the fill counts as one corruption *)
InitialImages ==
    {Corrupt(BaseImage, S) : S \in CorruptionSets(MaxCorruptions)}
    \cup {Corrupt(FilledImage, S) : S \in CorruptionSets(MaxCorruptions - 1)}

(* what the uninitialised local indirect_entries buffer may hold after a short
   read: nothing but zeros, a small block number, a word with the top bit set *)
StaleBuffers == {Empty, MapOf({<<0, 13>>}), MapOf({<<0, -2051164689>>})}

----------------------------------------------------------------------------
(* The run driver *)

NotRepaired ==
    [superblock |-> Empty, inode_bitmap |-> Empty, data_bitmap |-> Empty, inodes |-> Empty]

Fresh ==
    /\ pc = "main"
    /\ fs_image = "none"
    /\ pass = 1
    /\ superblock = Empty
    /\ inode_bitmap = Empty
    /\ data_bitmap = Empty
    /\ inodes = Empty
    /\ block_referenced = {}
    /\ block_referenced_by = Empty
    /\ errors_found = 0
    /\ errors_fixed = 0
    /\ original_errors = -1
    /\ found = Empty
    /\ fixed_printed = -1
    /\ steps = <<>>
    /\ writes = <<>>

(* the command lines: the program name alone, with one path, with two *)
ArgCounts == {1, 2, 3}

Init ==
    /\ argc \in ArgCounts
    /\ disk \in (IF argc = 2 THEN InitialImages ELSE {BaseImage})
    /\ disk0 = disk
    /\ before = NotRepaired
    /\ run = 1
    /\ Fresh

Step(name, next) ==
    /\ pc = name
    /\ pc' = next
    /\ steps' = Append(steps, name)

(* main, lines 91-94: the usage message and return 1 *)
Usage ==
    /\ pc = "main"
    /\ argc # 2
    /\ pc' = "usage"
    /\ UNCHANGED <<argc, fs_image, disk, disk0, before, run, pass, superblock, inode_bitmap,
                   data_bitmap, inodes, block_referenced, block_referenced_by,
                   errors_found, errors_fixed, original_errors, found, fixed_printed,
                   steps, writes>>

(* main, lines 97-101: fopen returns NULL, perror and return 1 *)
OpenFails ==
    /\ pc = "main"
    /\ argc = 2
    /\ fs_image' = "NULL"
    /\ pc' = "open_failed"
    /\ UNCHANGED <<argc, disk, disk0, before, run, pass, superblock, inode_bitmap,
                   data_bitmap, inodes, block_referenced, block_referenced_by,
                   errors_found, errors_fixed, original_errors, found, fixed_printed,
                   steps, writes>>

(* main, lines 97-107: fopen succeeds and the tracking arrays are initialised *)
Open ==
    /\ pc = "main"
    /\ argc = 2
    /\ fs_image' = "open"
    /\ pc' = "read_superblock"
    /\ block_referenced' = {}
    /\ block_referenced_by' = Empty
    /\ UNCHANGED <<argc, disk, disk0, before, run, pass, superblock, inode_bitmap,
                   data_bitmap, inodes, errors_found, errors_fixed, original_errors,
                   found, fixed_printed, steps, writes>>

ReadSuperblock ==
    /\ Step("read_superblock", "read_bitmaps")
    /\ superblock' = read_superblock(disk, superblock)
    /\ UNCHANGED <<argc, fs_image, disk, disk0, before, run, pass, inode_bitmap, data_bitmap, inodes,
                   block_referenced, block_referenced_by, errors_found,
                   errors_fixed, original_errors, found, fixed_printed, writes>>

ReadBitmaps ==
    /\ Step("read_bitmaps", "read_inodes")
    /\ inode_bitmap' = ReadBlock(disk, Get(superblock, SB_INODE_BITMAP_BLOCK), inode_bitmap)
    /\ data_bitmap' = ReadBlock(disk, Get(superblock, SB_DATA_BITMAP_BLOCK), data_bitmap)
    /\ UNCHANGED <<argc, fs_image, disk, disk0, before, run, pass, superblock, inodes,
                   block_referenced, block_referenced_by, errors_found,
                   errors_fixed, original_errors, found, fixed_printed, writes>>

ReadInodes ==
    /\ Step("read_inodes", "check_superblock")
    /\ inodes' = read_inodes(disk, superblock, inodes)
    /\ UNCHANGED <<argc, fs_image, disk, disk0, before, run, pass, superblock, inode_bitmap, data_bitmap,
                   block_referenced, block_referenced_by, errors_found,
                   errors_fixed, original_errors, found, fixed_printed, writes>>

(* a validator has printed the findings F *)
Record(name, F) ==
    /\ found' = [k \in DOMAIN found \cup {<<pass, name>>} |->
                    IF k = <<pass, name>> THEN F ELSE found[k]]
    /\ errors_found' = errors_found + Cardinality(F)

CheckSuperblock ==
    /\ Step("check_superblock", "check_inode_bitmap_consistency")
    /\ Record("check_superblock", check_superblock(superblock))
    /\ UNCHANGED <<argc, fs_image, disk, disk0, before, run, pass, superblock, inode_bitmap, data_bitmap,
                   inodes, block_referenced, block_referenced_by,
                   errors_fixed, original_errors, fixed_printed, writes>>

CheckInodeBitmap ==
    /\ Step("check_inode_bitmap_consistency", "check_data_bitmap_consistency")
    /\ Record("check_inode_bitmap_consistency",
              check_inode_bitmap_consistency(inode_bitmap, inodes))
    /\ UNCHANGED <<argc, fs_image, disk, disk0, before, run, pass, superblock, inode_bitmap, data_bitmap,
                   inodes, block_referenced, block_referenced_by,
                   errors_fixed, original_errors, fixed_printed, writes>>

(* indices of block_referenced[] inside the array *)
InArray(S) == S \subseteq 0 .. (TOTAL_BLOCKS - 1)

(* the indices of S that lie outside an array of TOTAL_BLOCKS elements *)
OutOfArray(S) == S \ (0 .. (TOTAL_BLOCKS - 1))

(* what a row of block_references[] read outside the matrix may hold *)
StaleRows == {<<0, 0>>, <<0, 0, 0>>}

(* the loop of lines 343-356 reads block_referenced[i] for every i it visits:
   an element outside the array reads as true (garbage) or as false *)
CheckDataBitmap ==
    /\ Step("check_data_bitmap_consistency", "check_duplicate_blocks")
    /\ \E stale \in StaleBuffers :
        /\ InArray(BlockReferenced(disk, superblock, inodes, stale))
        /\ block_referenced' = BlockReferenced(disk, superblock, inodes, stale)
        /\ block_referenced_by' = BlockReferencedBy(disk, superblock, inodes, stale)
    /\ \E garbage \in SUBSET OutOfArray(DataLoop(superblock)) :
        Record("check_data_bitmap_consistency",
               check_data_bitmap_consistency(superblock, data_bitmap,
                                             block_referenced' \cup garbage))
    /\ UNCHANGED <<argc, fs_image, disk, disk0, before, run, pass, superblock, inode_bitmap, data_bitmap,
                   inodes, errors_fixed, original_errors, fixed_printed, writes>>

(* mark_block_referenced stores outside block_referenced[]: the process is
   killed by SIGSEGV inside check_data_bitmap_consistency *)
CheckDataBitmapFault ==
    /\ Step("check_data_bitmap_consistency", "crashed")
    /\ \E stale \in StaleBuffers :
        ~InArray(BlockReferenced(disk, superblock, inodes, stale))
    /\ UNCHANGED <<argc, fs_image, disk, disk0, before, run, pass, superblock, inode_bitmap, data_bitmap,
                   inodes, block_referenced, block_referenced_by, errors_found,
                   errors_fixed, original_errors, found, fixed_printed, writes>>

(* the loop of lines 422-432 reads reference_counts[i] for every i it visits:
   an element outside the array holds a count of at most 1, or a small count
   with a row of garbage claimants *)
CheckDuplicateBlocks ==
    /\ Step("check_duplicate_blocks", "check_bad_blocks")
    /\ LET inside == {f \in check_duplicate_blocks(disk, superblock, inodes) :
                          f[1] \notin OutOfArray(DataLoop(superblock))}
       IN  \E garbage \in SUBSET OutOfArray(DataLoop(superblock)) :
           \E row \in StaleRows :
               Record("check_duplicate_blocks", inside \cup {<<b, row>> : b \in garbage})
    /\ UNCHANGED <<argc, fs_image, disk, disk0, before, run, pass, superblock, inode_bitmap, data_bitmap,
                   inodes, block_referenced, block_referenced_by,
                   errors_fixed, original_errors, fixed_printed, writes>>

(* reference_counts[i] outside the array holds a large count and the loop of
   line 425 reads block_references[i][j] past the stack, or the walk has
   stored claimants past the end of block_references: the process is killed
   by SIGSEGV *)
CheckDuplicateBlocksFault ==
    /\ Step("check_duplicate_blocks", "crashed")
    /\ OutOfArray(DataLoop(superblock)) \cup PastMatrix(ClaimantRows(disk, inodes)) # {}
    /\ UNCHANGED <<argc, fs_image, disk, disk0, before, run, pass, superblock, inode_bitmap, data_bitmap,
                   inodes, block_referenced, block_referenced_by, errors_found,
                   errors_fixed, original_errors, found, fixed_printed, writes>>

CheckBadBlocks ==
    /\ Step("check_bad_blocks", "report")
    /\ Record("check_bad_blocks", check_bad_blocks(disk, superblock, inodes))
    /\ UNCHANGED <<argc, fs_image, disk, disk0, before, run, pass, superblock, inode_bitmap, data_bitmap,
                   inodes, block_referenced, block_referenced_by,
                   errors_fixed, original_errors, fixed_printed, writes>>

(* main, lines 122-133 and 167-169: the summary, then the decision to repair *)
Report1 ==
    /\ pass = 1
    /\ Step("report", IF errors_found > 0 THEN "fix_errors" ELSE "close")
    /\ UNCHANGED <<argc, fs_image, disk, disk0, before, run, pass, superblock, inode_bitmap, data_bitmap,
                   inodes, block_referenced, block_referenced_by, errors_found,
                   errors_fixed, original_errors, found, fixed_printed, writes>>

(* main, lines 134-136: fix_errors and the "Errors fixed" line *)
FixErrors ==
    /\ Step("fix_errors", "recheck")
    /\ LET r == fix_errors(disk, superblock, inode_bitmap, data_bitmap, inodes,
                           block_referenced)
       IN  /\ superblock' = r.superblock
           /\ inode_bitmap' = r.inode_bitmap
           /\ data_bitmap' = r.data_bitmap
           /\ inodes' = r.inodes
           /\ disk' = r.disk
           /\ writes' = writes \o r.writes
           /\ errors_fixed' = errors_fixed + r.fixed
           /\ fixed_printed' = errors_fixed + r.fixed
    /\ before' = [superblock |-> superblock, inode_bitmap |-> inode_bitmap,
                  data_bitmap |-> data_bitmap, inodes |-> inodes]
    /\ UNCHANGED <<argc, fs_image, disk0, run, pass, block_referenced, block_referenced_by,
                   errors_found, original_errors, found>>

(* main, lines 138-144: the counters are reset for the re-check *)
Recheck ==
    /\ Step("recheck", "check_superblock")
    /\ original_errors' = errors_found
    /\ errors_found' = 0
    /\ errors_fixed' = 0
    /\ pass' = 2
    /\ UNCHANGED <<argc, fs_image, disk, disk0, before, run, superblock, inode_bitmap, data_bitmap, inodes,
                   block_referenced, block_referenced_by, found, fixed_printed, writes>>

(* main, lines 151-166 *)
Report2 ==
    /\ pass = 2
    /\ Step("report", "close")
    /\ UNCHANGED <<argc, fs_image, disk, disk0, before, run, pass, superblock, inode_bitmap, data_bitmap,
                   inodes, block_referenced, block_referenced_by, errors_found,
                   errors_fixed, original_errors, found, fixed_printed, writes>>

(* main, lines 171-174: fclose and return 0 *)
Close ==
    /\ Step("close", "done")
    /\ fs_image' = "closed"
    /\ UNCHANGED <<argc, disk, disk0, before, run, pass, superblock, inode_bitmap, data_bitmap,
                   inodes, block_referenced, block_referenced_by, errors_found,
                   errors_fixed, original_errors, found, fixed_printed, writes>>

(* the program is started again on the image the previous run left *)
NextRun ==
    /\ pc = "done"
    /\ run < MaxRuns
    /\ run' = run + 1
    /\ disk0' = disk
    /\ before' = NotRepaired
    /\ pc' = "main"
    /\ fs_image' = "none"
    /\ pass' = 1
    /\ superblock' = Empty
    /\ inode_bitmap' = Empty
    /\ data_bitmap' = Empty
    /\ inodes' = Empty
    /\ block_referenced' = {}
    /\ block_referenced_by' = Empty
    /\ errors_found' = 0
    /\ errors_fixed' = 0
    /\ original_errors' = -1
    /\ found' = Empty
    /\ fixed_printed' = -1
    /\ steps' = <<>>
    /\ writes' = <<>>
    /\ UNCHANGED <<argc, disk>>

Next ==
    \/ Usage
    \/ OpenFails
    \/ Open
    \/ ReadSuperblock
    \/ ReadBitmaps
    \/ ReadInodes
    \/ CheckSuperblock
    \/ CheckInodeBitmap
    \/ CheckDataBitmap
    \/ CheckDataBitmapFault
    \/ CheckDuplicateBlocks
    \/ CheckDuplicateBlocksFault
    \/ CheckBadBlocks
    \/ Report1
    \/ FixErrors
    \/ Recheck
    \/ Report2
    \/ Close
    \/ NextRun

Spec == Init /\ [][Next]_vars

(* main runs to completion without waiting for anything *)
FairSpec == Spec /\ WF_vars(Next)

----------------------------------------------------------------------------
(* Vocabulary of the properties *)

Ran(p, name) == <<p, name>> \in DOMAIN found

Called(name) == \E k \in 1 .. Len(steps) : steps[k] = name

Repaired == Called("fix_errors")

(* the structures as the current run loaded them: fix_errors is the only
   call that changes them *)
Sb0 == IF Repaired THEN before.superblock ELSE superblock
Ibm0 == IF Repaired THEN before.inode_bitmap ELSE inode_bitmap
Dbm0 == IF Repaired THEN before.data_bitmap ELSE data_bitmap
Ino0 == IF Repaired THEN before.inodes ELSE inodes

(* the structures a validation pass sees *)
SbOf(p) == IF p = 1 THEN Sb0 ELSE superblock
IbmOf(p) == IF p = 1 THEN Ibm0 ELSE inode_bitmap
InoOf(p) == IF p = 1 THEN Ino0 ELSE inodes

DataRegion == DATA_BLOCK_START .. (TOTAL_BLOCKS - 1)

(* inode validity and bitmap bits, read off the raw words *)
LinkedAndLive(ino, i) ==
    Get(ino, i * WordsPerInode + I_NLINK) # 0 /\ Get(ino, i * WordsPerInode + I_DTIME) = 0

BitIsSet(bitmap, k) ==
    IF k % 32 = 31 THEN Get(bitmap, k \div 32) < 0
    ELSE (Get(bitmap, k \div 32) \div (2 ^ (k % 32))) % 2 = 1

(* the block pointers of the inode record i of table ino: its direct slots,
   its single-indirect slot, and the entries of its single-indirect block
   in image d *)
PointerValues(d, ino, i) ==
    {Get(ino, i * WordsPerInode + I_DIRECT + j) : j \in 0 .. (NDIRECT - 1)}
    \cup {Get(ino, i * WordsPerInode + I_INDIRECT)}
    \cup (IF Get(ino, i * WordsPerInode + I_INDIRECT) \in 1 .. (TOTAL_BLOCKS - 1)
          THEN {d[a] : a \in {x \in DOMAIN d :
                    x \div WordsPerBlock = Get(ino, i * WordsPerInode + I_INDIRECT)}}
          ELSE {})

(* the Reference Map rebuilt from an inode table: the data-region blocks
   some valid inode points to *)
ReferenceMap(d, ino) ==
    {b \in DataRegion : \E i \in InodeSlots :
        LinkedAndLive(ino, i) /\ b \in PointerValues(d, ino, i)}

(* the nonzero block pointers of inode record i, each with its slot *)
PointerSlots(d, ino, i) ==
    {<<i, "direct", j, Get(ino, i * WordsPerInode + I_DIRECT + j)>> :
        j \in {k \in 0 .. (NDIRECT - 1) : Get(ino, i * WordsPerInode + I_DIRECT + k) # 0}}
    \cup {<<i, "indirect", 0, Get(ino, i * WordsPerInode + I_INDIRECT)>> :
        z \in {x \in {0} : Get(ino, i * WordsPerInode + I_INDIRECT) # 0}}

EntrySlots(d, ino, i) ==
    {<<i, "entry", a % WordsPerBlock, d[a]>> :
        a \in {x \in DOMAIN d :
                  /\ Get(ino, i * WordsPerInode + I_INDIRECT) # 0
                  /\ x \div WordsPerBlock = Get(ino, i * WordsPerInode + I_INDIRECT)}}

(* v lies in [start, TOTAL_BLOCKS) *)
InRange(start, v) == start >= 0 /\ v >= start /\ v < TOTAL_BLOCKS

(* an image that satisfies every invariant of the layout *)
WellFormed(d) ==
    LET ibm == Slice(d, BlockAddr(INODE_BITMAP_BLOCK), WordsPerBlock)
        dbm == Slice(d, BlockAddr(DATA_BITMAP_BLOCK), WordsPerBlock)
        ino == Slice(d, BlockAddr(INODE_TABLE_START), INODE_COUNT * WordsPerInode)
        live == {i \in InodeSlots : LinkedAndLive(ino, i)}
        slots == UNION {PointerSlots(d, ino, i) \cup EntrySlots(d, ino, i) : i \in live}
    IN  /\ Get(d, SB_MAGIC) % 65536 = MAGIC_NUMBER
        /\ Get(d, SB_BLOCK_SIZE) = BLOCK_SIZE
        /\ Get(d, SB_TOTAL_BLOCKS) = TOTAL_BLOCKS
        /\ Get(d, SB_INODE_BITMAP_BLOCK) = INODE_BITMAP_BLOCK
        /\ Get(d, SB_DATA_BITMAP_BLOCK) = DATA_BITMAP_BLOCK
        /\ Get(d, SB_INODE_TABLE_START) = INODE_TABLE_START
        /\ Get(d, SB_DATA_BLOCK_START) = DATA_BLOCK_START
        /\ Get(d, SB_INODE_SIZE) = INODE_SIZE
        /\ Get(d, SB_INODE_COUNT) \in {INODE_COUNT, 0}
        /\ \A i \in InodeSlots : BitIsSet(ibm, i) <=> i \in live
        /\ \A s \in slots : InRange(DATA_BLOCK_START, s[4])
        /\ \A b \in DataRegion :
              /\ BitIsSet(dbm, b - DATA_BLOCK_START) <=> \E s \in slots : s[4] = b
              /\ Cardinality({s \in slots : s[4] = b}) <= 1

AllValidators ==
    {"check_superblock", "check_inode_bitmap_consistency",
     "check_data_bitmap_consistency", "check_duplicate_blocks", "check_bad_blocks"}

----------------------------------------------------------------------------
(* C1: once fix_errors has run, each data-bitmap bit of a block b of the data
   region [8, 64) is set if and only if b is in the Reference Map rebuilt from
   the repaired inodes, and the re-check reports no data-bitmap finding.  The
   code sets the bits from the map the first pass left, so this is violated. *)
C1_DataBitmapMatchesRebuiltMap ==
    /\ Repaired =>
          \A b \in DataRegion :
              BitIsSet(data_bitmap, b - DATA_BLOCK_START)
                  <=> b \in ReferenceMap(disk, inodes)
    /\ Ran(2, "check_data_bitmap_consistency") =>
          found[<<2, "check_data_bitmap_consistency">>] = {}

(* C2: a second complete run on the image the first run left changes no word
   of it.  Violated: the second run repairs what the first run's stale map
   got wrong. *)
C2_SecondRunChangesNothing ==
    run >= 2 => disk = disk0

(* C3: a run on an image that satisfies every invariant finds no error,
   does not call fix_errors, writes nothing and leaves the image as it was. *)
C3_WellFormedImageUntouched ==
    WellFormed(disk0) =>
        /\ errors_found = 0
        /\ \A k \in DOMAIN found : found[k] = {}
        /\ ~Repaired
        /\ pc \notin {"fix_errors", "recheck", "crashed"}
        /\ writes = <<>>
        /\ disk = disk0

C3_Witness ==
    /\ WellFormed(disk0)
    /\ Get(disk0, SB_INODE_COUNT) = 0
    /\ pc = "done"
    /\ \A v \in AllValidators : Ran(1, v)

----------------------------------------------------------------------------
(* pairs of distinct valid inodes, as loaded, whose first direct block is the
   same block B of the data region *)
SharedFirstDirect ==
    LET ino == Ino0
        live == {i \in InodeSlots : LinkedAndLive(ino, i)}
        first(i) == Get(ino, i * WordsPerInode + I_DIRECT)
    IN  {<<first(p[1]), p[1], p[2]>> : p \in
            {q \in live \X live :
                q[1] < q[2] /\ first(q[1]) = first(q[2]) /\ first(q[1]) \in DataRegion}}

Members(seq) == {seq[k] : k \in 1 .. Len(seq)}

(* pass p of the duplicate validator reported block t[1] with both inodes of t
   among its claimants *)
ReportsShared(p, t) ==
    \E f \in found[<<p, "check_duplicate_blocks">>] :
        f[1] = t[1] /\ {t[2], t[3]} \subseteq Members(f[2])

(* C4: the first pass reports B with both claimants and the re-check reports
   the very same finding, whatever else is corrupted.  Violated when the
   loaded data-region-start lies above B: check_duplicate_blocks starts its
   scan at the field check_superblock has just reported as invalid. *)
C4_DuplicateReportedAndKept ==
    \A t \in SharedFirstDirect :
        /\ Ran(1, "check_duplicate_blocks") => ReportsShared(1, t)
        /\ Ran(2, "check_duplicate_blocks") =>
              \E f \in found[<<1, "check_duplicate_blocks">>] :
                  /\ f[1] = t[1]
                  /\ {t[2], t[3]} \subseteq Members(f[2])
                  /\ f \in found[<<2, "check_duplicate_blocks">>]

----------------------------------------------------------------------------
(* the geometry fields that differ from the supported constants *)
FieldsOff(sb) ==
    {f \in SB_MAGIC .. SB_INODE_COUNT :
        (IF f = SB_MAGIC THEN Get(sb, f) % 65536 ELSE Get(sb, f)) # SbExpected[f]}

(* C5 as stated: one superblock finding per field that differs from its
   constant; after repair all nine fields hold the constants, in memory and
   in the image, and the re-check reports no superblock finding.  Violated by
   an inode count of 0, which differs from 80 and is not reported. *)
C5_OneFindingPerFieldOff ==
    /\ \A p \in {1, 2} : Ran(p, "check_superblock") =>
          found[<<p, "check_superblock">>] = FieldsOff(SbOf(p))
    /\ Repaired => FieldsOff(superblock) = {} /\ FieldsOff(Slice(disk, 0, WordsPerBlock)) = {}
    /\ Ran(2, "check_superblock") => found[<<2, "check_superblock">>] = {}

(* C5 amended: one finding per field that differs from its constant, except
   that an inode count of 0 yields none; the rest as stated. *)
C5_OneFindingPerFieldOffButZeroCount ==
    /\ \A p \in {1, 2} : Ran(p, "check_superblock") =>
          found[<<p, "check_superblock">>] =
              {f \in FieldsOff(SbOf(p)) : ~(f = SB_INODE_COUNT /\ Get(SbOf(p), f) = 0)}
    /\ Repaired => FieldsOff(superblock) = {} /\ FieldsOff(Slice(disk, 0, WordsPerBlock)) = {}
    /\ Ran(2, "check_superblock") => found[<<2, "check_superblock">>] = {}

C5_Witness ==
    /\ Ran(2, "check_superblock")
    /\ found[<<1, "check_superblock">>] = {SB_MAGIC}
    /\ Get(Sb0, SB_INODE_COUNT) = 0
    /\ Get(superblock, SB_INODE_COUNT) = INODE_COUNT

----------------------------------------------------------------------------
(* the slots whose inode-bitmap bit differs from the validity of the inode *)
BitmapMismatches(ibm, ino) ==
    LET bits == ibm
        table == ino
    IN  {<<i, IF BitIsSet(bits, i) THEN "used_not_valid" ELSE "valid_not_used">> :
            i \in {k \in InodeSlots : BitIsSet(bits, k) # LinkedAndLive(table, k)}}

(* C6: the inode-bitmap validator reports exactly the slots whose bit differs
   from nlink > 0 /\ dtime = 0, one finding each; after repair every bit equals
   the validity of its inode and the re-check reports no inode-bitmap finding. *)
C6_InodeBitmapFollowsValidity ==
    /\ \A p \in {1, 2} : Ran(p, "check_inode_bitmap_consistency") =>
          found[<<p, "check_inode_bitmap_consistency">>]
              = BitmapMismatches(IbmOf(p), InoOf(p))
    /\ Repaired => \A i \in InodeSlots :
          BitIsSet(inode_bitmap, i) <=> LinkedAndLive(inodes, i)
    /\ Ran(2, "check_inode_bitmap_consistency") =>
          found[<<2, "check_inode_bitmap_consistency">>] = {}

C6_Witness ==
    /\ Ran(2, "check_inode_bitmap_consistency")
    /\ \E i \in {f[1] : f \in found[<<1, "check_inode_bitmap_consistency">>]} :
          /\ Get(Ino0, i * WordsPerInode + I_NLINK) = 0
          /\ Get(Ino0, i * WordsPerInode + I_DTIME) = 0
          /\ BitIsSet(Ibm0, i)
          /\ <<i, "used_not_valid">> \in found[<<1, "check_inode_bitmap_consistency">>]
          /\ ~BitIsSet(inode_bitmap, i)

----------------------------------------------------------------------------
(* the pointer slots of the valid inodes of table ino that hold a nonzero
   value outside [start, TOTAL_BLOCKS); the entries of an indirect block count
   when the indirect pointer itself is inside *)
SlotsOutside(d, ino, start) ==
    LET table == ino
        live == {i \in InodeSlots : LinkedAndLive(table, i)}
        inside(i) == InRange(start, Get(table, i * WordsPerInode + I_INDIRECT))
    IN  {s \in UNION {PointerSlots(d, table, i)
                        \cup (IF inside(i) THEN EntrySlots(d, table, i) ELSE {}) : i \in live} :
            ~InRange(start, s[4])}

(* the value slot s holds now: in inodes[] for a pointer, in the image for an
   entry of the indirect block the inode pointed to when it was loaded *)
SlotNow(s) ==
    CASE s[2] = "direct" -> Get(inodes, s[1] * WordsPerInode + I_DIRECT + s[3])
      [] s[2] = "indirect" -> Get(inodes, s[1] * WordsPerInode + I_INDIRECT)
      [] s[2] = "entry" ->
            Get(disk, Get(Ino0, s[1] * WordsPerInode + I_INDIRECT) * WordsPerBlock + s[3])

(* C7: the bad-block validator reports exactly the pointer slots of valid
   inodes outside [data-region-start, 64); repair zeroes every reported slot;
   the re-check reports none.  Violated when the loaded data-region-start is
   not 8: check_bad_blocks ranges against the loaded field, fix_errors
   against 8. *)
C7_ReportedSlotsZeroed ==
    /\ Ran(1, "check_bad_blocks") =>
          found[<<1, "check_bad_blocks">>]
              = SlotsOutside(disk0, Ino0, Get(Sb0, SB_DATA_BLOCK_START))
    /\ (Repaired /\ Ran(1, "check_bad_blocks")) =>
          \A s \in found[<<1, "check_bad_blocks">>] : SlotNow(s) = 0
    /\ Ran(2, "check_bad_blocks") => found[<<2, "check_bad_blocks">>] = {}

----------------------------------------------------------------------------
(* a valid inode, as loaded, whose first direct block is TOTAL_BLOCKS, and the
   loaded data bitmap has the bit of index TOTAL_BLOCKS - 8 set *)
PastEndInodes ==
    LET ino == Ino0
    IN  {i \in InodeSlots :
            LinkedAndLive(ino, i) /\ Get(ino, i * WordsPerInode + I_DIRECT) = TOTAL_BLOCKS}

PastEndCase ==
    /\ BitIsSet(Dbm0, TOTAL_BLOCKS - DATA_BLOCK_START)
    /\ PastEndInodes # {}

(* C8 as stated: in that case repair clears bit 56 of the data bitmap.
   Violated: repair only visits the bits of blocks 8..63. *)
C8_PastEndBitCleared ==
    (Repaired /\ PastEndCase) =>
        ~BitIsSet(data_bitmap, TOTAL_BLOCKS - DATA_BLOCK_START)

(* C8 amended: in that case repair zeroes the direct slot and leaves bit 56 as
   it was, set, in memory and in the data bitmap block it writes. *)
C8_PastEndBitKept ==
    (Repaired /\ PastEndCase) =>
        /\ BitIsSet(data_bitmap, TOTAL_BLOCKS - DATA_BLOCK_START)
        /\ BitIsSet(Slice(disk, BlockAddr(DATA_BITMAP_BLOCK), WordsPerBlock),
                    TOTAL_BLOCKS - DATA_BLOCK_START)
        /\ \A i \in PastEndInodes : Get(inodes, i * WordsPerInode + I_DIRECT) = 0

C8_Witness == pc = "done" /\ Repaired /\ PastEndCase

----------------------------------------------------------------------------
FirstPassCalls ==
    <<"read_superblock", "read_bitmaps", "read_inodes", "check_superblock",
      "check_inode_bitmap_consistency", "check_data_bitmap_consistency",
      "check_duplicate_blocks", "check_bad_blocks", "report">>

RepairCalls ==
    <<"fix_errors", "recheck", "check_superblock",
      "check_inode_bitmap_consistency", "check_data_bitmap_consistency",
      "check_duplicate_blocks", "check_bad_blocks", "report">>

IsPrefix(s, t) == Len(s) <= Len(t) /\ s = SubSeq(t, 1, Len(s))

(* the findings of the first pass, counted from what the validators printed *)
FirstPassFindings ==
    UNION {{<<v, f>> : f \in found[<<1, v>>]} : v \in {w \in AllValidators : Ran(1, w)}}

(* C9: every run goes LOAD, VALIDATE1, REPORT1 and then either ends, when the
   first pass found nothing, or goes REPAIR, PERSIST, VALIDATE2, REPORT2 once
   and ends; no run stops before its terminal state.  Violated: a run can be
   killed inside check_data_bitmap_consistency. *)
C9_RunFollowsStateMachine ==
    /\ \/ IsPrefix(steps, FirstPassCalls \o <<"close">>)
       \/ IsPrefix(steps, FirstPassCalls \o RepairCalls \o <<"close">>)
    /\ Len(steps) > Len(FirstPassCalls) =>
          (steps[Len(FirstPassCalls) + 1] = "fix_errors" <=> FirstPassFindings # {})
    /\ pc = "done" => steps[Len(steps)] = "close"
    /\ pc # "crashed"

----------------------------------------------------------------------------
(* C10 as stated: the image is written only by repair, superblock first, then
   the two bitmaps, then the inode table, then the modified indirect blocks.
   Violated: fix_errors writes each modified indirect block at once, before
   write_superblock. *)
C10_IndirectBlocksWrittenLast ==
    /\ writes # <<>> => Repaired
    /\ \A k \in 1 .. Len(writes) : \A m \in 1 .. Len(writes) :
          (writes[k][1] = "indirect" /\ writes[m][1] # "indirect") => m < k
    /\ \A k \in 1 .. Len(writes) : \A m \in 1 .. Len(writes) :
          (writes[k][1] = "superblock" /\ writes[m][1] \in {"inode_bitmap", "data_bitmap", "inode_table"})
              => k < m

(* C10 amended: the image is written only by repair, and in the order:
   the modified indirect blocks, then the superblock, the inode bitmap, the
   data bitmap, the inode table. *)
C10_IndirectBlocksWrittenFirst ==
    /\ ~Repaired => writes = <<>> /\ disk = disk0
    /\ Repaired =>
          /\ Len(writes) >= 4
          /\ \A k \in 1 .. (Len(writes) - 4) : writes[k][1] = "indirect"
          /\ SubSeq(writes, Len(writes) - 3, Len(writes))
                = << <<"superblock", 0>>,
                     <<"inode_bitmap", INODE_BITMAP_BLOCK>>,
                     <<"data_bitmap", DATA_BITMAP_BLOCK>>,
                     <<"inode_table", INODE_TABLE_START>> >>

C10_Witness == pc = "done" /\ Len(writes) > 4 /\ writes[1][1] = "indirect"

----------------------------------------------------------------------------
(* a read of one block at blk that runs past the end of the image *)
ShortBlockRead(blk) == BlockAddr(blk) + WordsPerBlock > ImageWords

(* the position in steps of the first call of the run one of whose freads
   fell short, 0 if there is none so far: read_bitmaps, read_inodes, or the
   read of an indirect block in the first check_data_bitmap_consistency *)
FirstShortRead ==
    LET sb == Sb0
        ino == Ino0
    IN  IF /\ Called("read_bitmaps")
           /\ \/ ShortBlockRead(Get(sb, SB_INODE_BITMAP_BLOCK))
              \/ ShortBlockRead(Get(sb, SB_DATA_BITMAP_BLOCK))
        THEN 2
        ELSE IF /\ Called("read_inodes")
                /\ \E i \in InodeSlots : InodeAddr(sb, i) + WordsPerInode > ImageWords
        THEN 3
        ELSE IF /\ Called("check_data_bitmap_consistency")
                /\ \E i \in InodeSlots :
                      /\ LinkedAndLive(ino, i)
                      /\ Get(ino, i * WordsPerInode + I_INDIRECT) # 0
                      /\ ShortBlockRead(Get(ino, i * WordsPerInode + I_INDIRECT))
        THEN 6
        ELSE 0

(* C11: a read that returns fewer bytes than requested ends the run at once:
   the call that made it is the last call of the run and nothing is written.
   Violated: no fread result is tested, the run goes on with the buffer as it
   was. *)
C11_ShortReadAborts ==
    FirstShortRead # 0 =>
        /\ Len(steps) = FirstShortRead
        /\ writes = <<>>

----------------------------------------------------------------------------
(* the run has ended: by a return of main or by a signal *)
Terminated == pc \in {"done", "usage", "open_failed", "crashed"}

(* the status the process ends with: main's return value, or 128 + SIGSEGV as
   the shell reports a process killed by that signal; -1 while it runs *)
ExitStatus ==
    CASE pc = "done" -> 0
      [] pc \in {"usage", "open_failed"} -> 1
      [] pc = "crashed" -> 139
      [] OTHER -> -1

(* C12: the process exits with 1, having loaded and validated nothing, when
   argc is not 2 or fopen fails, and with 0 in every other case.  Violated: a
   run killed inside check_data_bitmap_consistency does not exit with 0. *)
C12_ExitCodes ==
    Terminated =>
        IF argc # 2 \/ fs_image = "NULL"
        THEN /\ ExitStatus = 1
             /\ steps = <<>>
             /\ superblock = Empty /\ inodes = Empty /\ found = Empty
             /\ writes = <<>>
        ELSE ExitStatus = 0

----------------------------------------------------------------------------
(* the five validators in the order main calls them *)
ValidatorOrder ==
    <<"check_superblock", "check_inode_bitmap_consistency",
      "check_data_bitmap_consistency", "check_duplicate_blocks", "check_bad_blocks">>

(* the calls of pass p made so far: steps 4..8 and 12..16 of a run *)
PassCalls(p) ==
    LET first == IF p = 1 THEN 4 ELSE 12
        last == IF Len(steps) < first + 4 THEN Len(steps) ELSE first + 4
    IN  IF Len(steps) < first THEN <<>> ELSE SubSeq(steps, first, last)

(* the number of findings the validators of pass p printed *)
PassFindings(p) ==
    Cardinality(found[<<p, "check_superblock">>])
    + Cardinality(found[<<p, "check_inode_bitmap_consistency">>])
    + Cardinality(found[<<p, "check_data_bitmap_consistency">>])
    + Cardinality(found[<<p, "check_duplicate_blocks">>])
    + Cardinality(found[<<p, "check_bad_blocks">>])

PassComplete(p) == \A v \in AllValidators : Ran(p, v)

(* C13: each validation pass calls the five validators in order and every one
   of them returns; at the end of the pass errors_found is the number of
   findings of the five.  Violated: a run can be killed inside
   check_data_bitmap_consistency, and the pass is never completed. *)
C13_PassesRunAllValidators ==
    /\ \A p \in {1, 2} : IsPrefix(PassCalls(p), ValidatorOrder)
    /\ \A p \in {1, 2} : (Terminated /\ PassCalls(p) # <<>>) => PassComplete(p)
    /\ PassComplete(pass) => errors_found = PassFindings(pass)
    /\ original_errors # -1 => original_errors = PassFindings(1)

----------------------------------------------------------------------------
(* the valid inodes of table ino that claim block b in image d: by a direct
   pointer, the single-indirect pointer or an entry of the single-indirect
   block *)
DistinctClaimants(d, ino, b) ==
    {i \in InodeSlots : LinkedAndLive(ino, i) /\ b \in PointerValues(d, ino, i)}

(* the image and the inode table pass p of the validators reads *)
DiskOf(p) == IF p = 1 THEN disk0 ELSE disk

(* C14: the duplicate validator reports exactly the blocks of the data region
   that more than one distinct valid inode claims, each with exactly those
   inodes as claimants.  Violated: the validator counts references, so a block
   one inode refers to twice is reported as owned by multiple inodes. *)
C14_DuplicateIffDistinctClaimants ==
    \A p \in {1, 2} : Ran(p, "check_duplicate_blocks") =>
        LET d == DiskOf(p)
            ino == InoOf(p)
            shared == {b \in DataRegion : Cardinality(DistinctClaimants(d, ino, b)) > 1}
        IN  /\ {f[1] : f \in found[<<p, "check_duplicate_blocks">>]} = shared
            /\ \A f \in found[<<p, "check_duplicate_blocks">>] :
                  Members(f[2]) = DistinctClaimants(d, ino, f[1])

----------------------------------------------------------------------------
(* the bits of the first 64 that differ between two bitmaps *)
BitsChanged(old, new) ==
    {k \in 0 .. (TOTAL_BLOCKS - 1) : BitIsSet(old, k) # BitIsSet(new, k)}

(* the words that differ between two sparse maps *)
WordsChanged(old, new) ==
    {a \in DOMAIN old \cup DOMAIN new : Get(old, a) # Get(new, a)}

(* C15: whatever fix_errors changes, the first pass reported: a superblock
   field, an inode-bitmap bit, a data-bitmap bit, a pointer slot of an inode or
   an entry of an indirect block; an inode count of 0 is kept; and the "Errors
   fixed" figure is at most the first pass's "Total errors found".  Violated:
   fix_errors overwrites an inode count of 0 and counts it as fixed. *)
C15_RepairOnlyWhatWasReported ==
    Repaired =>
        LET sb == Sb0
            ino == Ino0
            loaded == Get(sb, SB_DATA_BLOCK_START)
        IN  /\ \A f \in SB_MAGIC .. SB_INODE_COUNT :
                  SbValue(superblock, f) # SbValue(sb, f)
                      => f \in found[<<1, "check_superblock">>]
            /\ Get(sb, SB_INODE_COUNT) = 0 => Get(superblock, SB_INODE_COUNT) = 0
            /\ \A k \in BitsChanged(Ibm0, inode_bitmap) :
                  \E f \in found[<<1, "check_inode_bitmap_consistency">>] : f[1] = k
            /\ \A k \in BitsChanged(Dbm0, data_bitmap) :
                  \E f \in found[<<1, "check_data_bitmap_consistency">>] : f[1] - loaded = k
            /\ \A a \in WordsChanged(ino, inodes) :
                  \E f \in found[<<1, "check_bad_blocks">>] :
                      /\ f[1] = a \div WordsPerInode
                      /\ \/ f[2] = "direct" /\ a % WordsPerInode = I_DIRECT + f[3]
                         \/ f[2] = "indirect" /\ a % WordsPerInode = I_INDIRECT
            /\ \A k \in 1 .. Len(writes) : writes[k][1] = "indirect" =>
                  \A a \in {x \in WordsChanged(disk0, disk) :
                                x \div WordsPerBlock = writes[k][2]} :
                      \E f \in found[<<1, "check_bad_blocks">>] :
                          /\ f[2] = "entry"
                          /\ Get(ino, f[1] * WordsPerInode + I_INDIRECT) = writes[k][2]
                          /\ f[3] = a % WordsPerBlock
            /\ fixed_printed <= PassFindings(1)

----------------------------------------------------------------------------
(* the inode table of image d: blocks 3..7, addressed from 0 *)
TableOf(d) == Slice(d, BlockAddr(INODE_TABLE_START), INODE_COUNT * WordsPerInode)

(* C16: the inode table on disk differs from the one the run started with
   only in direct and single-indirect pointer words of valid inodes that held
   a nonzero value outside [8, 64) and now hold 0.  Violated: with a corrupted
   inode_table_start the records read from elsewhere are written over blocks
   3..7. *)
C16_InodeTableFrame ==
    LET old == TableOf(disk0)
        new == TableOf(disk)
    IN  \A a \in WordsChanged(old, new) :
            /\ Get(new, a) = 0
            /\ a % WordsPerInode \in I_DIRECT .. I_INDIRECT
            /\ LinkedAndLive(old, a \div WordsPerInode)
            /\ ~InRange(DATA_BLOCK_START, old[a])

----------------------------------------------------------------------------
(* the bit index "i - superblock.data_block_start" handed to get_bit: the
   difference is taken in uint32_t and converted to int *)
BitIndex(sb, i) ==
    LET s == Get(sb, SB_DATA_BLOCK_START)
    IN  IF (i >= 0) = (s >= 0) THEN i - s
        ELSE IF i >= 0
             THEN (IF i > 2147483647 + s THEN (i + Bit31) - (s - Bit31) ELSE i - s)
             ELSE (IF i - Bit31 < s THEN (i - Bit31) - (s + Bit31) ELSE i - s)

(* C17: whatever data_block_start the image holds, the data-bitmap validator
   reads block_referenced[] only at indices in [0, 64) and the data bitmap
   only at bit indices in [0, 32768), mark_block_referenced stores only at
   indices in [0, 64), and the duplicate validator reads reference_counts[]
   only at indices in [0, 64).  Violated: the loops start at
   (int) data_block_start. *)
C17_TrackingArraysIndexedInRange ==
    /\ Called("check_data_bitmap_consistency") =>
          /\ \A i \in DataLoop(Sb0) :
                /\ i \in 0 .. (TOTAL_BLOCKS - 1)
                /\ BitIndex(Sb0, i) \in 0 .. (BLOCK_SIZE * 8 - 1)
          /\ \A stale \in StaleBuffers :
                InArray(BlockReferenced(disk0, Sb0, Ino0, stale))
    /\ Called("check_duplicate_blocks") =>
          \A i \in DataLoop(Sb0) : i \in 0 .. (TOTAL_BLOCKS - 1)

----------------------------------------------------------------------------
(* C18: after check_duplicate_blocks has run, the number of claimants it has
   recorded for a block is at most INODE_COUNT, the length of the block's row
   of block_references, also when one inode names the same block many times.
   Violated: every reference is stored and counted, with no test of the
   count. *)
C18_ClaimantsFitTheRow ==
    \A p \in {1, 2} : Ran(p, "check_duplicate_blocks") =>
        \A b \in 0 .. (TOTAL_BLOCKS - 1) :
            Len(Claimants(DiskOf(p), InoOf(p), b)) <= INODE_COUNT

====
